---------------------------- MODULE Spec2Model ----------------------------
(***************************************************************************)
(* LancorC admin dashboard: the client-side session (AuthProvider), the    *)
(* layout shell that gates the routed pages, the e-mail/OTP login dialog   *)
(* and the list query of the users page, as one state machine.             *)
(*                                                                         *)
(* JavaScript values.  A string-typed slot holds a TLA+ string; the two    *)
(* sentinels Null and Undefined stand for null and for an absent/undefined *)
(* value.  An object-typed or boolean-typed optional slot is a sequence:   *)
(* << >> for null/absent, <<v>> for the value v.                           *)
(***************************************************************************)
EXTENDS Integers, Sequences, FiniteSets, TLC

VARIABLES
    \* ---- AuthProvider (src/src/context/AuthContext.tsx:44-46)
    user,            \* useState<User | null>: << >> or <<record>>
    token,           \* useState<string | null>: Null or a string
    authLoading,     \* useState(true): AuthProvider's isLoading
    \* ---- the browser
    storage,         \* localStorage["lancorc_auth"]: << >>, <<"garbage">> or <<"json", StoredAuth>>
    now,             \* Date.now(), in ms
    \* ---- DashboardLayoutContent (src/src/app/layout.tsx:42-43)
    mounted,
    loginDialogOpen,
    view,            \* what the last committed render of the shell shows
    \* ---- LoginDialog (src/src/context/AuthContext.tsx:138-147)
    step, email, otp, dlgLoading, error, success, attempts,
    otpSentTime,     \* << >> (null) or <<ms>>
    timeLeft,
    timer,           \* the interval of timerRef: << >> (none/cleared) or <<start ms>>
    inflight,        \* the dialog's pending fetches, oldest first
    \* ---- UsersPage (src/src/app/(dashboard)/users/page.tsx:200-220)
    route,           \* which routed child the shell would render: "home" | "users"
    listReqs,        \* the list requests in flight (a set)
    otherKeys,       \* localStorage["token"] and localStorage["auth_token"]
    usersCache,      \* the data of the query ["users", societyId], per societyId:
                     \* << >> (undefined) or <<the list>>
    invalidated,     \* per societyId: the query is marked invalidated
    mutReqs,         \* the create/update/status requests in flight, oldest first
    searchTerm,      \* useState(""), as a sequence of characters
    userTypeFilter,  \* useState("ALL")
    createDialogOpen,
    editDialogUser,  \* << >> (null) or <<row>>
    formValues,      \* the values of the mounted UserForm: << >> (none) or <<values>>
    formEvent,       \* history: how the latest close of a form or the latest answer
                     \* to a create or update went, "none" after any other input
    \* ---- history (not program state): what the claims speak about
    lastAnswer,      \* the answer to the dialog's last fetch: << >> before the first,
                     \* else <<[to |-> the request, res |-> the answer]>>
    session,         \* << >> no login yet, <<"in", response, loginTime>> since the last
                     \* login, <<"out", page loaded again since>> since the last logout
    mountAt,         \* time of the last run of AuthProvider's mount effect (-1: none)
    otpHist,         \* per-OTP history of the dialog, see OtpHist0
    \* ---- the mock API layer (src/unnamed/part_002:62-150)
    mockUsers,       \* let mockUsers: User[]
    mockCalls,       \* the calls whose mockDelay() is running, oldest first
    mockResult,      \* the array the last fetchUsers() returned, held by its caller:
                     \* << >> or <<[rows, shared]>>
    mockOutcome,     \* history: how the last call ended: << >> or <<outcome>>
    mockLog          \* history: the calls in the order their delays ended

authVars   == <<user, token, authLoading, storage>>
layoutVars == <<mounted, loginDialogOpen, view>>
dialogVars == <<step, email, otp, dlgLoading, error, success, attempts,
                otpSentTime, timeLeft, timer, inflight>>
pageVars   == <<route, listReqs>>
cacheVars  == <<otherKeys, usersCache, invalidated, mutReqs>>
localVars  == <<searchTerm, userTypeFilter, createDialogOpen, editDialogUser, formValues,
               formEvent>>
usersVars  == <<cacheVars, localVars>>
histVars   == <<lastAnswer, session, mountAt, otpHist>>
mockVars   == <<mockUsers, mockCalls, mockResult, mockOutcome, mockLog>>
vars == <<authVars, now, layoutVars, dialogVars, pageVars, usersVars, histVars, mockVars>>

-----------------------------------------------------------------------------
(* JavaScript values                                                       *)

Null      == "<null>"
Undefined == "<undefined>"

\* !!v for a string-typed slot
Truthy(v) == v \notin {Null, Undefined, ""}

\* a || b on string-typed slots
Or(a, b) == IF Truthy(a) THEN a ELSE b

\* a ?? b on an optional boolean (<< >> is null/undefined)
Nullish(a, b) == IF a # << >> THEN a ELSE b

-----------------------------------------------------------------------------
(* Bounds of the model                                                     *)

T0         == 1000   \* Date.now() at the first page load
MaxInFlight == 2     \* create/update/status requests in flight at a time
MaxWindows == 2      \* the clock runs over at most this many expiration windows
MaxSlackMs == 2      \* ... plus at most this many single milliseconds
MaxTicks   == 1      \* ... single timer periods within one half OTP lifetime
MaxHalves  == 2      \* ... half OTP lifetimes

-----------------------------------------------------------------------------
(* Program constants                                                       *)

AUTH_STORAGE_KEY   == "lancorc_auth"
EXPIRATION_MS      == 48 * 60 * 60 * 1000
MAX_ATTEMPTS       == 3
OTP_EXPIRY_MINUTES == 10
TICK_MS            == 1000


-----------------------------------------------------------------------------
(* The data the backend may send                                           *)

SocietyA == "11111111-1111-1111-1111-111111111111"
SocietyB == "22222222-2222-2222-2222-222222222222"

MkUser(id, soc, name, mail, phone, type, active) ==
    [user_id |-> id, society_id |-> soc, full_name |-> name, email |-> mail,
     phone |-> phone, user_type |-> type, is_active |-> active]

AdminA == MkUser("aaaaaaaa", SocietyA, "John Admin", "admin@lancor.in",
                 "+91 98765 43210", "ADMIN", TRUE)
AdminB == MkUser("dddddddd", SocietyB, "Ravi Admin", "ravi@lancor.in",
                 "+91 90000 00002", "ADMIN", TRUE)
OwnerA == MkUser("bbbbbbbb", SocietyA, "Meena Owner", "meena@lancor.in",
                 "+91 90000 00001", "OWNER", TRUE)
\* a user object that names its fields differently: the fields the client
\* reads (society_id, user_type, full_name) are absent
ForeignUser == MkUser("cccccccc", Undefined, Undefined, "admin@lancor.in",
                      Undefined, Undefined, TRUE)

\* the JSON body of a verify-otp response: every field the client reads
EmptyBody ==
    [success |-> << >>, valid |-> << >>, error |-> Undefined, message |-> Undefined,
     token |-> Undefined, jwt |-> Undefined, accessToken |-> Undefined,
     data |-> << >>,
     user |-> << >>, userDto |-> << >>, profile |-> << >>,
     userId |-> Undefined, id |-> Undefined, user_id |-> Undefined,
     societyId |-> Undefined, society_id |-> Undefined,
     name |-> Undefined, fullName |-> Undefined, full_name |-> Undefined,
     email |-> Undefined, phone |-> Undefined,
     userType |-> Undefined, user_type |-> Undefined, role |-> Undefined,
     isActive |-> << >>, is_active |-> << >>]

Http(ok, body) == [kind |-> "http", ok |-> ok, data |-> body]

VerifyResponses ==
    { \* accepted shapes
      Http(TRUE, [EmptyBody EXCEPT !.token = "tokA", !.user = <<AdminA>>]),
      Http(TRUE, [EmptyBody EXCEPT !.jwt = "tokB", !.userDto = <<OwnerA>>,
                                   !.success = <<TRUE>>]),
      Http(TRUE, [EmptyBody EXCEPT !.accessToken = "tokB", !.userId = "aaaaaaaa",
                                   !.societyId = SocietyA, !.name = "John Admin",
                                   !.role = "ADMIN", !.is_active = <<TRUE>>]),
      Http(TRUE, [EmptyBody EXCEPT !.data = <<[token |-> "tokB", user |-> <<AdminB>>]>>]),
      Http(TRUE, [EmptyBody EXCEPT !.token = "tokA", !.profile = <<ForeignUser>>]),
      Http(TRUE, [EmptyBody EXCEPT !.token = "tokA"]),
      Http(TRUE, [EmptyBody EXCEPT !.user = <<AdminA>>]),
      Http(TRUE, EmptyBody),
      \* rejected shapes
      Http(FALSE, [EmptyBody EXCEPT !.message = "Invalid OTP code"]),
      Http(TRUE, [EmptyBody EXCEPT !.success = <<FALSE>>]),
      Http(TRUE, [EmptyBody EXCEPT !.valid = <<FALSE>>, !.message = "Wrong code"]),
      Http(TRUE, [EmptyBody EXCEPT !.error = "otp_mismatch"]),
      \* no usable answer: fetch rejects, or the body is not JSON
      [kind |-> "network", ok |-> FALSE, data |-> EmptyBody],
      [kind |-> "badjson", ok |-> FALSE, data |-> EmptyBody] }

RequestOtpResponses ==
    { [kind |-> "http", ok |-> TRUE, message |-> Undefined],
      [kind |-> "http", ok |-> FALSE, message |-> "Unknown email"],
      [kind |-> "http", ok |-> FALSE, message |-> Undefined],
      [kind |-> "network", ok |-> FALSE, message |-> Undefined],
      [kind |-> "badjson", ok |-> FALSE, message |-> Undefined] }

\* err.message of the errors the browser raises
NetworkErrorMessage == "Failed to fetch"
JsonErrorMessage    == "Unexpected token < in JSON"

\* what can be typed into the e-mail field
EmailInputs == {"admin@lancor.in", "meena@lancor.in", " "}

\* String.prototype.trim() on the e-mail values above
Trim(s) == IF s = " " THEN "" ELSE s

\* email.split("@")[0] on the e-mail values above
LocalPart(s) ==
    CASE s = "admin@lancor.in" -> "admin"
      [] s = "meena@lancor.in" -> "meena"
      [] OTHER -> s

\* what can be typed or pasted into the OTP field, as characters
OtpInputs ==
    { <<"1", "2", "3", "4", "5", "6">>,
      <<"9", "8", "7", " ", "6", "5", "a">> }

Digits == {"0", "1", "2", "3", "4", "5", "6", "7", "8", "9"}

\* the characters of cs joined into one string
RECURSIVE Join(_)
Join(cs) == IF cs = << >> THEN "" ELSE Head(cs) \o Join(Tail(cs))

IsDigit(c) == c \in Digits

\* e.target.value.replace(/\D/g, "").slice(0, 6)
SanitizeOtp(raw) ==
    LET digits == SelectSeq(raw, IsDigit)
    IN Join(SubSeq(digits, 1, IF Len(digits) < 6 THEN Len(digits) ELSE 6))

-----------------------------------------------------------------------------
(* localStorage and JSON                                                   *)

Absent  == << >>
Garbage == <<"garbage">>

\* JSON.stringify(stored): the text is represented by the value it encodes
JSONStringify(stored) == <<"json", stored>>

\* JSON.parse(text): << >> when it throws, else <<value>>
JSONParse(text) == IF Len(text) = 2 /\ text[1] = "json" THEN <<text[2]>> ELSE << >>


-----------------------------------------------------------------------------
(* AuthProvider                                                            *)

\* variant: the token is not looked at
IsAuthenticated_UserOnly(u, t) == u # << >>

\* isAuthenticated: !!user && !!token
IsAuthenticated(u, t) == u # << >> /\ Truthy(t)

\* isAdmin: user?.user_type === "ADMIN"
IsAdmin(u) == u # << >> /\ u[1].user_type = "ADMIN"

\* the flags of the context value of the current render
isAuthenticated == IsAuthenticated(user, token)
isAdmin         == IsAdmin(user)

\* variant: the stored record is restored whatever its age
MountEffect_NoExpiry(stored, t) ==
    LET parsed == JSONParse(stored) IN
    IF parsed = << >>
    THEN [user |-> << >>, token |-> Null, storage |-> Absent]
    ELSE [user |-> <<parsed[1].user>>, token |-> parsed[1].token, storage |-> stored]

\* variant: a record of exactly EXPIRATION_MS is expired already
MountEffect_ExpiresAtLimit(stored, t) ==
    LET parsed == JSONParse(stored) IN
    IF parsed = << >> \/ t - parsed[1].timestamp >= EXPIRATION_MS
    THEN [user |-> << >>, token |-> Null, storage |-> Absent]
    ELSE [user |-> <<parsed[1].user>>, token |-> parsed[1].token, storage |-> stored]

\* variant: the restored token is not yet set when loading ends
MountEffect_TokenLater(stored, t) ==
    LET parsed == JSONParse(stored) IN
    IF stored = Absent \/ parsed = << >> \/ t - parsed[1].timestamp > EXPIRATION_MS
    THEN [user |-> << >>, token |-> Null, storage |-> Absent]
    ELSE [user |-> <<parsed[1].user>>, token |-> Null, storage |-> stored]

\* the mount effect: what it leaves in <<user, token, storage>> at time t
MountEffect(stored, t) ==
    IF stored = Absent
    THEN [user |-> << >>, token |-> Null, storage |-> stored]
    ELSE LET parsed == JSONParse(stored) IN
         IF parsed = << >>
         THEN [user |-> << >>, token |-> Null, storage |-> Absent]
         ELSE IF t - parsed[1].timestamp > EXPIRATION_MS
              THEN [user |-> << >>, token |-> Null, storage |-> Absent]
              ELSE [user |-> <<parsed[1].user>>, token |-> parsed[1].token,
                    storage |-> stored]

\* variant: the record is stored without the token
LoginEffect_TokenNotStored(response, t) ==
    [user    |-> <<response.user>>,
     token   |-> response.token,
     storage |-> JSONStringify([user |-> response.user, token |-> Null,
                                timestamp |-> t])]

\* login(response): what it leaves in <<user, token, storage>> at time t
LoginEffect(response, t) ==
    [user    |-> <<response.user>>,
     token   |-> response.token,
     storage |-> JSONStringify([user |-> response.user, token |-> response.token,
                                timestamp |-> t])]

\* variant: removeItem is not called
LogoutEffect_KeepsRecord == [user |-> << >>, token |-> Null, storage |-> storage]

\* logout()
LogoutEffect == [user |-> << >>, token |-> Null, storage |-> Absent]

-----------------------------------------------------------------------------
(* DashboardLayoutContent                                                  *)

\* variant: the second return tests isAuthenticated only
Screen_NoAdminTest(m, loading, authenticated, admin) ==
    IF ~m \/ loading THEN "loading"
    ELSE IF ~authenticated THEN "restricted"
    ELSE "dashboard"

\* which of its three returns the shell takes
Screen(m, loading, authenticated, admin) ==
    IF ~m \/ loading THEN "loading"
    ELSE IF ~authenticated \/ ~admin THEN "restricted"
    ELSE "dashboard"

\* the render of the shell with the context value of AuthProvider's state
Render(m, loading, u, t) == Screen(m, loading, IsAuthenticated(u, t), IsAdmin(u))

-----------------------------------------------------------------------------
(* UsersPage: the list query                                               *)

USERS_API_BASE == "http://localhost:8080/api/admin/users"

\* user?.society_id
SocietyOf(u) == IF u = << >> THEN Undefined ELSE u[1].society_id

\* the URL fetchUsers(societyId) requests
FetchUsersUrl(societyId) == USERS_API_BASE \o "?societyId=" \o societyId

\* variant: enabled: isAuthenticated
QueryEnabled_AnySociety(u, t) == IsAuthenticated(u, t)

\* enabled: !!user?.society_id && isAuthenticated
QueryEnabled(u, t) == Truthy(SocietyOf(u)) /\ IsAuthenticated(u, t)

\* getHeaders(), read from localStorage when the request is built
GetHeaders ==
    LET stored == Or(otherKeys.token, otherKeys.auth_token) IN
    [ContentType   |-> "application/json",
     Authorization |-> IF Truthy(stored) THEN "Bearer " \o stored ELSE Undefined]

\* queryFn: fetchUsers(user?.society_id || ""); key is the societyId of the
\* queryKey the answer is cached under
ListRequest(u) ==
    [method |-> "GET", url |-> FetchUsersUrl(Or(SocietyOf(u), "")),
     headers |-> GetHeaders, key |-> SocietyOf(u)]

\* variant: the routed child is rendered on every screen of the shell
PageMounted_AnyScreen(v, r) == r = "users"

\* UsersPage is the routed child, and the shell renders its children
PageMounted(v, r) == v = "dashboard" /\ r = "users"

\* the requests in flight after the observer of the query (re)fetches: a fetch
\* of a query that is disabled, or already fetching, issues nothing
Fetched(reqs, u, t) ==
    IF QueryEnabled(u, t) THEN reqs \cup {ListRequest(u)} ELSE reqs

\* the requests in flight after a render: the query fetches when UsersPage mounts
AfterRender(reqs, wasMounted, isMounted, u, t) ==
    IF isMounted /\ ~wasMounted THEN Fetched(reqs, u, t) ELSE reqs


-----------------------------------------------------------------------------
(* UsersPage: the rows, the search, the forms and the requests             *)
(* Text that is searched is a sequence of characters.                      *)

UserTypes == {"ADMIN", "EC", "OWNER", "TENANT", "STAFF", "SECURITY"}

\* a row of the list: type User of the page
Row(id, soc, name, mail, phone, type, active) ==
    [user_id |-> id, society_id |-> soc, full_name |-> name, email |-> mail,
     phone |-> phone, user_type |-> type, is_active |-> active]

RowAdmin  == Row("aaaaaaaa", SocietyA, <<"J", "o", "h", "n">>,
                 <<"a", "@", "x", ".", "i", "n">>, "+91 98765 43210", "ADMIN", TRUE)
RowOwner  == Row("bbbbbbbb", SocietyA, <<"M", "e", "e", "n", "a", " ", "O">>,
                 <<"j", "o", "@", "x", ".", "i", "n">>, "+91 90000 00001", "OWNER", FALSE)
RowTenant == Row("eeeeeeee", SocietyA, <<"j", "o", "a", "n">>,
                 <<"T", "@", "X", ".", "I", "N">>, "+91 90000 00003", "TENANT", TRUE)

\* the lists the backend may send
UserLists == { << >>, <<RowAdmin, RowOwner>>, <<RowOwner, RowTenant, RowAdmin>> }

\* the answers to a list request: a failure, a JSON array, a JSON object
\* with or without a users field
ListAnswers ==
    {[ok |-> FALSE, shape |-> "none", users |-> << >>],
     [ok |-> TRUE, shape |-> "object", users |-> << >>]}
    \cup {[ok |-> TRUE, shape |-> "array", users |-> <<l>>] : l \in UserLists}
    \cup {[ok |-> TRUE, shape |-> "object", users |-> <<l>>] : l \in UserLists \ {<< >>}}

\* what fetchUsers resolves to for an OK answer
FetchUsersResult(ans) == IF ans.users = << >> THEN << >> ELSE ans.users[1]

Societies == {SocietyA, SocietyB}

\* data: users = [] of the query the page observes
UsersOf(cache, u) ==
    IF SocietyOf(u) \in Societies /\ cache[SocietyOf(u)] # << >>
    THEN cache[SocietyOf(u)][1] ELSE << >>

UpperCaseLetters == <<"A", "B", "C", "D", "E", "F", "G", "H", "I", "J", "K", "L", "M",
                      "N", "O", "P", "Q", "R", "S", "T", "U", "V", "W", "X", "Y", "Z">>
LowerCaseLetters == <<"a", "b", "c", "d", "e", "f", "g", "h", "i", "j", "k", "l", "m",
                      "n", "o", "p", "q", "r", "s", "t", "u", "v", "w", "x", "y", "z">>

ToLowerChar(c) ==
    IF \E i \in 1..Len(UpperCaseLetters) : UpperCaseLetters[i] = c
    THEN LowerCaseLetters[CHOOSE i \in 1..Len(UpperCaseLetters) : UpperCaseLetters[i] = c]
    ELSE c

\* String.prototype.toLowerCase()
ToLowerCase(text) == [i \in 1..Len(text) |-> ToLowerChar(text[i])]

\* String.prototype.includes()
Includes(text, part) ==
    \E i \in 0..(Len(text) - Len(part)) : SubSeq(text, i + 1, i + Len(part)) = part

\* String.prototype.trim()
RECURSIVE TrimStart(_)
TrimStart(text) ==
    IF text # << >> /\ Head(text) = " " THEN TrimStart(Tail(text)) ELSE text
RECURSIVE TrimEnd(_)
TrimEnd(text) ==
    IF text # << >> /\ text[Len(text)] = " "
    THEN TrimEnd(SubSeq(text, 1, Len(text) - 1)) ELSE text
TrimText(text) == TrimEnd(TrimStart(text))

\* matchesSearch of the routed page: the term is used as typed
MatchesSearch(u, term) ==
    \/ term = << >>
    \/ Includes(ToLowerCase(u.full_name), ToLowerCase(term))
    \/ Includes(ToLowerCase(u.email), ToLowerCase(term))

\* matchesType
MatchesType(u, filter) == filter = "ALL" \/ u.user_type = filter

\* variant: the term is compared as typed, not lower-cased
FilteredUsers_TermAsTyped(users, term, filter) ==
    SelectSeq(users, LAMBDA u :
        /\ \/ term = << >>
           \/ Includes(ToLowerCase(u.full_name), term)
           \/ Includes(ToLowerCase(u.email), term)
        /\ MatchesType(u, filter))

\* filteredUsers of the routed page
FilteredUsers(users, term, filter) ==
    SelectSeq(users, LAMBDA u : MatchesSearch(u, term) /\ MatchesType(u, filter))

\* filteredUsers of the mock-store page: the term is trimmed first
FilteredUsersMock(users, term, filter) ==
    LET trimmed == ToLowerCase(TrimText(term)) IN
    SelectSeq(users, LAMBDA u :
        /\ \/ trimmed = << >>
           \/ Includes(ToLowerCase(u.full_name), trimmed)
           \/ Includes(ToLowerCase(u.email), trimmed)
        /\ MatchesType(u, filter))

\* what can be typed into the search field
SearchInputs == { << >>, <<"j", "o">>, <<"J", "O">>, <<" ">>, <<"o", "A">>,
                  <<"j", "o", " ">>, <<"z">> }

\* the choices of the type filter
FilterInputs == {"ALL", "ADMIN", "OWNER", "TENANT"}

\* `${active}`
BoolText(b) == IF b THEN "true" ELSE "false"

\* createUser(data): the request
CreateRequest(values) ==
    [kind |-> "create", method |-> "POST", url |-> USERS_API_BASE,
     headers |-> GetHeaders, body |-> <<values>>, target |-> "", current |-> TRUE,
     page |-> TRUE]

\* updateUser(user_id, data): the request
UpdateRequest(id, values) ==
    [kind |-> "update", method |-> "PUT", url |-> USERS_API_BASE \o "/" \o id,
     headers |-> GetHeaders, body |-> <<values>>, target |-> id, current |-> TRUE,
     page |-> TRUE]

\* toggleUserStatus(user_id, active): the request
StatusRequest(id, active) ==
    [kind |-> "status", method |-> "PATCH",
     url |-> USERS_API_BASE \o "/" \o id \o "/status?active=" \o BoolText(active),
     headers |-> GetHeaders, body |-> << >>, target |-> id, current |-> FALSE,
     page |-> TRUE]

\* variant: the Delete button is never disabled
DeleteDisabled_Never(u) == FALSE

\* the Delete button's disabled attribute
DeleteDisabled(u) == ~u.is_active

\* userFormSchema
FormValid(values) ==
    /\ values.society_id \in Societies
    /\ Len(values.full_name) >= 2
    /\ \E i \in 2..(Len(values.email) - 1) : values.email[i] = "@"
    /\ Len(values.phone) >= 7 /\ Len(values.phone) <= 20
    /\ values.user_type \in UserTypes

\* initialValues of the create form
CreateInitialValues(u) ==
    [society_id |-> Or(SocietyOf(u), ""), full_name |-> << >>, email |-> << >>,
     phone |-> "", user_type |-> "OWNER", is_active |-> TRUE]

\* initialValues of the edit form, as the schema keeps them
EditInitialValues(row) ==
    [society_id |-> row.society_id, full_name |-> row.full_name, email |-> row.email,
     phone |-> row.phone, user_type |-> row.user_type, is_active |-> row.is_active]

\* what can be typed into the create form: a complete entry, a name too short
CreateInputs ==
    { [full_name |-> <<"R", "a", "j">>, email |-> <<"r", "@", "x", ".", "i", "n">>,
       phone |-> "9000000004", user_type |-> "TENANT", is_active |-> TRUE],
      [full_name |-> <<"R">>, email |-> <<"r", "@", "x", ".", "i", "n">>,
       phone |-> "9000000004", user_type |-> "OWNER", is_active |-> TRUE] }

\* what can be changed in the edit form: the Active switch
EditInputs == {"switch"}

\* variant: the Society ID field can be typed into
Typed_SocietyEditable(initial, typed) ==
    [initial EXCEPT !.society_id = SocietyB,
                    !.full_name = typed.full_name, !.email = typed.email,
                    !.phone = typed.phone, !.user_type = typed.user_type,
                    !.is_active = typed.is_active]

\* the values of a form after typing
Typed(initial, typed) ==
    [initial EXCEPT !.full_name = typed.full_name, !.email = typed.email,
                    !.phone = typed.phone, !.user_type = typed.user_type,
                    !.is_active = typed.is_active]
Switched(initial, change) ==
    IF change = "switch" THEN [initial EXCEPT !.is_active = ~@] ELSE initial

\* the answers to a create, update or status request: OK with a JSON body,
\* OK with a body that is not JSON, not OK
MutationAnswers == {[ok |-> TRUE, json |-> TRUE], [ok |-> TRUE, json |-> FALSE],
                    [ok |-> FALSE, json |-> TRUE]}

\* variant: every answer counts as a success
Resolves_Always(req, ans) == TRUE

\* variant: the status of the answer is not tested
Resolves_StatusIgnored(req, ans) == req.kind = "status" \/ ans.json

\* the mutation function resolves: createUser and updateUser read the JSON
\* body of an OK answer, toggleUserStatus reads no body
Resolves(req, ans) == ans.ok /\ (req.kind = "status" \/ ans.json)

\* the state of the page's own hooks when it is (re)mounted
NoOtherKeys == [token |-> Null, auth_token |-> Null]
EmptyCache  == [k \in Societies |-> << >>]
NotInvalidated == [k \in Societies |-> FALSE]

-----------------------------------------------------------------------------
(* LoginDialog                                                             *)

OtpLifetimeSec == OTP_EXPIRY_MINUTES * 60

MsgEnterEmail   == "Please enter your email address"
MsgOtpSent      == "OTP sent to your email successfully!"
MsgSendFailed   == "Failed to send OTP"
MsgBadOtp       == "Please enter a valid 6-digit OTP"
MsgMaxAttempts  == "Maximum attempts exceeded. Please request a new OTP."
MsgExpired      == "OTP has expired. Please request a new one."

\* the state of a freshly mounted dialog (useState initial values)
DialogInit ==
    [step |-> "email", email |-> "", otp |-> "", dlgLoading |-> FALSE,
     error |-> "", success |-> "", attempts |-> 0, otpSentTime |-> << >>,
     timeLeft |-> OtpLifetimeSec, timer |-> << >>]

\* the history kept per OTP:
\*   requestedFor  the e-mail of the request-otp answered OK since the dialog
\*                 was last reset (resend, close, remount), "" if none
\*   rejected      verify-otp requests answered with a rejection since the
\*                 last OTP was sent
\*   expiredShown  the countdown of the last OTP sent has run out in the dialog
OtpHist0 == [requestedFor |-> "", rejected |-> 0, expiredShown |-> FALSE]

\* the interval after the effect on [step, otpSentTime] has run at time t
TimerAfter(step0, sent0, step1, sent1, timer0, t) ==
    IF step0 = step1 /\ sent0 = sent1 THEN timer0
    ELSE IF step1 = "otp" /\ sent1 # << >> /\ sent1[1] # 0 THEN <<t>>
    ELSE << >>

\* variant: res.ok is not tested
OtpSent_AnyStatus(res) == res.kind = "http"

\* request-otp was answered, and with an OK status: neither the fetch nor
\* the test of res.ok throws
OtpSent(res) == res.kind = "http" /\ res.ok

\* variant: the Send OTP button is never disabled
SendDisabled_Never(loading) == FALSE

\* the Send OTP button's disabled attribute
SendDisabled(loading) == loading

\* variant: the rejection is counted twice
NewAttempts_CountedTwice(tries) == tries + 2

\* variant: the rejection is not counted
NewAttempts_NotCounted(tries) == tries

\* newAttempts of the rejection branch, from the attempts of the click
NewAttempts(tries) == tries + 1

\* the Verify button's disabled attribute
VerifyDisabled(loading, code, tries) ==
    loading \/ Len(code) # 6 \/ tries >= MAX_ATTEMPTS

\* variant: the status of the answer is not tested
Rejected_StatusNotTested(res) ==
    \/ res.data.success = <<FALSE>>
    \/ res.data.valid = <<FALSE>>
    \/ Truthy(res.data.error)

\* the test of a verify-otp answer that sends it to the rejection branch
Rejected(res) ==
    \/ ~res.ok
    \/ res.data.success = <<FALSE>>
    \/ res.data.valid = <<FALSE>>
    \/ Truthy(res.data.error)

\* variant: no text while attempts remain
RejectionMessage_OnlyAtLimit(data, remaining) ==
    IF remaining > 0 THEN "" ELSE MsgMaxAttempts

\* the error text of a rejection that leaves `remaining` attempts
RejectionMessage(data, remaining) ==
    IF remaining > 0
    THEN Or(data.message, Or(data.error, "Invalid OTP")) \o ". "
         \o ToString(remaining) \o " attempt(s) remaining."
    ELSE MsgMaxAttempts

\* the AuthResponse built from an accepted answer
BuildAuthResponse(data, mail) ==
    LET nestedToken == IF data.data = << >> THEN Undefined ELSE data.data[1].token
        nestedUser  == IF data.data = << >> THEN << >> ELSE data.data[1].user
        built == MkUser(Or(data.userId, Or(data.id, Or(data.user_id, ""))),
                        Or(data.societyId, Or(data.society_id, "")),
                        Or(data.name, Or(data.fullName, Or(data.full_name, LocalPart(mail)))),
                        Or(data.email, mail),
                        Or(data.phone, ""),
                        Or(data.userType, Or(data.user_type, Or(data.role, "ADMIN"))),
                        Nullish(data.isActive, Nullish(data.is_active, <<TRUE>>))[1])
        given == Nullish(data.user, Nullish(data.userDto, Nullish(data.profile, nestedUser)))
    IN [token |-> Or(data.token, Or(data.jwt, Or(data.accessToken, Or(nestedToken, "")))),
        user  |-> Nullish(given, <<built>>)[1]]


-----------------------------------------------------------------------------
(* The mock API layer (src/unnamed/part_002): a module-level array and four *)
(* asynchronous functions, each of which waits mockDelay() and then reads   *)
(* and writes the array without a further await                            *)

MaxMockCalls == 4    \* calls of the mock API layer in one run

\* let mockUsers: User[] = [...]
MockUsers0 ==
    << Row("aaaaaaaa", SocietyA, <<"J", "o", "h", "n">>, <<"a", "@", "e", ".", "c">>,
           "+91 98765 43210", "ADMIN", TRUE),
       Row("bbbbbbbb", SocietyA, <<"M", "e", "e", "n", "a">>, <<"m", "@", "e", ".", "c">>,
           "+91 90000 00001", "OWNER", TRUE) >>

\* the values of crypto.randomUUID(), in the order they are drawn
FreshIds == <<"cccccccc", "dddddddd", "ffffffff", "gggggggg", "hhhhhhhh", "iiiiiiii">>

\* {...a, ...b}
Spread(a, b) ==
    [f \in DOMAIN a \cup DOMAIN b |-> IF f \in DOMAIN b THEN b[f] ELSE a[f]]

\* users.findIndex((u) => u.user_id === id), counted from 1; 0 for -1
FindIndex(users, id) ==
    IF \E i \in 1..Len(users) : users[i].user_id = id
    THEN CHOOSE i \in 1..Len(users) :
             /\ users[i].user_id = id
             /\ \A k \in 1..(i - 1) : users[k].user_id # id
    ELSE 0

\* variant: the value itself is returned
structuredClone_SameObject(value) == [value |-> value, shared |-> TRUE]

\* structuredClone(value): a deep copy, which shares no object with value
structuredClone(value) == [value |-> value, shared |-> FALSE]

\* what a call does when its delay has ended, on the array it reads: the
\* array it leaves and what it returns (ok) or throws (~ok)
fetchUsers(users) ==
    [users |-> users, ok |-> TRUE, result |-> structuredClone(users)]

createUser(users, data, id) ==
    LET newUser == Spread(data, [user_id |-> id]) IN
    [users |-> <<newUser>> \o users, ok |-> TRUE, result |-> structuredClone(newUser)]

updateUser(users, data) ==
    LET index == FindIndex(users, data.user_id) IN
    IF index = 0
    THEN [users |-> users, ok |-> FALSE, result |-> "User not found"]
    ELSE LET after == [users EXCEPT ![index] = Spread(users[index], data)] IN
         [users |-> after, ok |-> TRUE, result |-> structuredClone(after[index])]

\* variant: the user is removed from the array
softDeleteUser_Removes(users, user_id) ==
    LET index == FindIndex(users, user_id) IN
    IF index = 0
    THEN [users |-> users, ok |-> FALSE, result |-> "User not found"]
    ELSE [users |-> SubSeq(users, 1, index - 1) \o SubSeq(users, index + 1, Len(users)),
          ok |-> TRUE, result |-> structuredClone(users[index])]

softDeleteUser(users, user_id) ==
    LET index == FindIndex(users, user_id) IN
    IF index = 0
    THEN [users |-> users, ok |-> FALSE, result |-> "User not found"]
    ELSE LET after == [users EXCEPT
                          ![index] = Spread(users[index], [is_active |-> FALSE])] IN
         [users |-> after, ok |-> TRUE, result |-> structuredClone(after[index])]

\* a call with its argument; id is the identifier randomUUID gives a create
MockApply(call, users, id) ==
    CASE call.op = "fetchUsers"     -> fetchUsers(users)
      [] call.op = "createUser"     -> createUser(users, call.data, id)
      [] call.op = "updateUser"     -> updateUser(users, call.data)
      [] call.op = "softDeleteUser" -> softDeleteUser(users, call.data.user_id)

\* variant: a call works on the array as it was when the call was made
StoreRead_AtCall(call, users) == call.seen

\* the array a call works on: mockUsers as it is when the delay has ended
StoreRead(call, users) == users

\* the calls made on the mock API layer: a list request, a create, an update
\* of a stored user and of an unknown one, a soft delete of a stored user
\* and of an unknown one
MockCallInputs ==
    { [op |-> "fetchUsers", data |-> << >>],
      [op |-> "createUser",
       data |-> [society_id |-> SocietyA, full_name |-> <<"R", "a", "j">>,
                 email |-> <<"r", "@", "e", ".", "c">>, phone |-> "9000000004",
                 user_type |-> "TENANT", is_active |-> TRUE]],
      [op |-> "updateUser", data |-> [user_id |-> "bbbbbbbb", is_active |-> TRUE,
                                      full_name |-> <<"M", "i", "n", "a">>]],
      [op |-> "updateUser", data |-> [user_id |-> "zzzzzzzz", phone |-> "1"]],
      [op |-> "softDeleteUser", data |-> [user_id |-> "bbbbbbbb"]],
      [op |-> "softDeleteUser", data |-> [user_id |-> "zzzzzzzz"]] }

-----------------------------------------------------------------------------
(* Initial state: the page has been requested and rendered once, no effect *)
(* has run yet.  localStorage holds nothing, or text that is not JSON.     *)

InitWith(keys) ==
    /\ user = << >> /\ token = Null /\ authLoading = TRUE
    /\ storage \in {Absent, Garbage}
    /\ now = T0
    /\ mounted = FALSE /\ loginDialogOpen = FALSE /\ view = "loading"
    /\ step = DialogInit.step /\ email = DialogInit.email /\ otp = DialogInit.otp
    /\ dlgLoading = DialogInit.dlgLoading /\ error = DialogInit.error
    /\ success = DialogInit.success /\ attempts = DialogInit.attempts
    /\ otpSentTime = DialogInit.otpSentTime /\ timeLeft = DialogInit.timeLeft
    /\ timer = DialogInit.timer /\ inflight = << >>
    /\ route \in {"home", "users"} /\ listReqs = {}
    /\ lastAnswer = << >> /\ session = << >> /\ mountAt = -1 /\ otpHist = OtpHist0
    /\ otherKeys = keys /\ usersCache = EmptyCache /\ invalidated = NotInvalidated
    /\ mutReqs = << >>
    /\ searchTerm = << >> /\ userTypeFilter = "ALL"
    /\ createDialogOpen = FALSE /\ editDialogUser = << >> /\ formValues = << >>
    /\ formEvent = "none"
    /\ mockUsers = MockUsers0 /\ mockCalls = << >> /\ mockResult = << >>
    /\ mockOutcome = << >> /\ mockLog = << >>

\* the keys "token" and "auth_token" are not in localStorage
Init == InitWith(NoOtherKeys)

\* UsersPage unmounts: its useState values are gone, its requests go on
PageUnmounted ==
    /\ searchTerm' = << >> /\ userTypeFilter' = "ALL"
    /\ createDialogOpen' = FALSE /\ editDialogUser' = << >> /\ formValues' = << >>
    /\ formEvent' = "none"
    /\ mutReqs' = [i \in 1..Len(mutReqs) |->
                      [mutReqs[i] EXCEPT !.current = FALSE, !.page = FALSE]]

\* a freshly mounted dialog
FreshDialog ==
    /\ step' = DialogInit.step /\ email' = DialogInit.email /\ otp' = DialogInit.otp
    /\ dlgLoading' = DialogInit.dlgLoading /\ error' = DialogInit.error
    /\ success' = DialogInit.success /\ attempts' = DialogInit.attempts
    /\ otpSentTime' = DialogInit.otpSentTime /\ timeLeft' = DialogInit.timeLeft
    /\ timer' = DialogInit.timer

\* the effect on [open] when open is false
ResetOnClose ==
    /\ step' = "email" /\ email' = "" /\ otp' = "" /\ error' = "" /\ success' = ""
    /\ attempts' = 0 /\ otpSentTime' = << >> /\ timeLeft' = OtpLifetimeSec
    /\ timer' = << >>

-----------------------------------------------------------------------------
(* The page load                                                           *)

\* the effects of the first commit: setMounted(true) of the shell and the
\* mount effect of AuthProvider, flushed together, and the render they cause
MountEffects ==
    /\ ~mounted
    /\ LET m == MountEffect(storage, now) IN
       /\ user' = m.user /\ token' = m.token /\ storage' = m.storage
    /\ authLoading' = FALSE
    /\ mounted' = TRUE
    /\ view' = Render(TRUE, FALSE, user', token')
    /\ listReqs' = AfterRender(listReqs, FALSE, PageMounted(view', route), user', token')
    /\ mountAt' = now
    /\ session' = IF session # << >> /\ session[1] = "out" THEN <<"out", TRUE>> ELSE session
    /\ UNCHANGED <<now, loginDialogOpen, dialogVars, route, lastAnswer, otpHist, usersVars>>
    /\ UNCHANGED mockVars

\* the user reloads the page: everything in memory is lost
Reload ==
    /\ mounted
    /\ user' = << >> /\ token' = Null /\ authLoading' = TRUE
    /\ mounted' = FALSE /\ loginDialogOpen' = FALSE /\ view' = "loading"
    /\ FreshDialog /\ inflight' = << >>
    /\ listReqs' = {}
    /\ otpHist' = [otpHist EXCEPT
            !.requestedFor = "",
            \* a verify-otp request on its way is still answered
            !.rejected = @ + (IF inflight # << >> /\ inflight[1].kind = "verify-otp"
                              THEN 1 ELSE 0)]
    /\ PageUnmounted /\ usersCache' = EmptyCache /\ invalidated' = NotInvalidated
    /\ UNCHANGED <<storage, now, route, lastAnswer, session, mountAt, otherKeys>>
    /\ UNCHANGED mockVars

-----------------------------------------------------------------------------
(* The shell                                                               *)

\* the Logout buttons of the sidebar and the header
Logout ==
    /\ view = "dashboard"
    /\ user' = LogoutEffect.user /\ token' = LogoutEffect.token
    /\ storage' = LogoutEffect.storage
    /\ view' = Render(mounted, authLoading, user', token')
    /\ session' = <<"out", FALSE>>
    /\ PageUnmounted
    /\ UNCHANGED <<authLoading, now, mounted, loginDialogOpen, dialogVars, pageVars,
                   lastAnswer, mountAt, otpHist, otherKeys, usersCache, invalidated>>
    /\ UNCHANGED mockVars

\* "Login to Continue"
OpenDialog ==
    /\ view = "restricted" /\ ~loginDialogOpen
    /\ loginDialogOpen' = TRUE
    /\ UNCHANGED <<authVars, now, mounted, view, dialogVars, pageVars,
                   lastAnswer, session, mountAt, otpHist, usersVars>>
    /\ UNCHANGED mockVars

\* a sidebar link
Navigate(r) ==
    /\ view = "dashboard" /\ r # route
    /\ route' = r
    /\ listReqs' = AfterRender(listReqs, PageMounted(view, route), PageMounted(view, r),
                               user, token)
    /\ PageUnmounted
    /\ UNCHANGED <<authVars, now, layoutVars, dialogVars, lastAnswer, session, mountAt, otpHist,
                   otherKeys, usersCache, invalidated>>
    /\ UNCHANGED mockVars


-----------------------------------------------------------------------------
(* The login dialog                                                        *)

DialogShown == view = "restricted" /\ loginDialogOpen

\* typing into the e-mail field (disabled while loading)
SetEmail(e) ==
    /\ DialogShown /\ step = "email" /\ ~dlgLoading
    /\ email' = e
    /\ UNCHANGED <<authVars, now, layoutVars, step, otp, dlgLoading, error, success,
                   attempts, otpSentTime, timeLeft, timer, inflight, pageVars,
                   lastAnswer, session, mountAt, otpHist, usersVars>>
    /\ UNCHANGED mockVars

\* handleSendOtp, up to the fetch
ClickSendOtp ==
    /\ DialogShown /\ step = "email" /\ ~SendDisabled(dlgLoading)
    /\ IF Trim(email) = ""
       THEN /\ error' = MsgEnterEmail
            /\ UNCHANGED <<success, dlgLoading, inflight>>
       ELSE /\ error' = "" /\ success' = "" /\ dlgLoading' = TRUE
            /\ inflight' = Append(inflight,
                                   [kind |-> "request-otp", email |-> email, otp |-> "",
                                    attempts |-> attempts, afterExpiry |-> FALSE])
    /\ UNCHANGED <<authVars, now, layoutVars, step, email, otp, attempts, otpSentTime,
                   timeLeft, timer, pageVars, lastAnswer, session, mountAt, otpHist,
                   usersVars>>
    /\ UNCHANGED mockVars

\* handleSendOtp, the answer of request-otp
RequestOtpResponse(res) ==
    /\ inflight # << >> /\ inflight[1].kind = "request-otp"
    /\ inflight' = Tail(inflight)
    /\ lastAnswer' = <<[to |-> "request-otp", res |-> res]>>
    /\ IF OtpSent(res)
       THEN /\ success' = MsgOtpSent
            /\ step' = "otp"
            /\ otpSentTime' = <<now>>
            /\ attempts' = 0
            /\ dlgLoading' = FALSE
            /\ timer' = TimerAfter(step, otpSentTime, step', otpSentTime', timer, now)
            /\ otpHist' = [requestedFor |-> inflight[1].email, rejected |-> 0,
                           expiredShown |-> FALSE]
            /\ UNCHANGED error
       ELSE /\ error' = CASE res.kind = "network" -> NetworkErrorMessage
                          [] res.kind = "badjson" -> JsonErrorMessage
                          [] OTHER -> Or(Or(res.message, MsgSendFailed), MsgSendFailed)
            /\ dlgLoading' = FALSE
            /\ UNCHANGED <<success, step, otpSentTime, attempts, timer, otpHist>>
    /\ UNCHANGED <<authVars, now, layoutVars, email, otp, timeLeft, pageVars,
                   session, mountAt, usersVars>>
    /\ UNCHANGED mockVars

\* typing into the OTP field (disabled while loading)
SetOtp(raw) ==
    /\ DialogShown /\ step = "otp" /\ ~dlgLoading
    /\ otp' = SanitizeOtp(raw)
    /\ UNCHANGED <<authVars, now, layoutVars, step, email, dlgLoading, error, success,
                   attempts, otpSentTime, timeLeft, timer, inflight, pageVars,
                   lastAnswer, session, mountAt, otpHist, usersVars>>
    /\ UNCHANGED mockVars

\* the Verify button: handleVerifyOtp, up to the fetch
ClickVerify ==
    /\ DialogShown /\ step = "otp"
    /\ ~VerifyDisabled(dlgLoading, otp, attempts)
    /\ IF otp = "" \/ Len(otp) # 6
       THEN /\ error' = MsgBadOtp
            /\ UNCHANGED <<dlgLoading, inflight>>
       ELSE IF attempts >= MAX_ATTEMPTS
       THEN /\ error' = MsgMaxAttempts
            /\ UNCHANGED <<dlgLoading, inflight>>
       ELSE /\ error' = "" /\ dlgLoading' = TRUE
            /\ inflight' = Append(inflight,
                                   [kind |-> "verify-otp", email |-> email, otp |-> otp,
                                    attempts |-> attempts,
                                    afterExpiry |-> otpHist.expiredShown])
    /\ UNCHANGED <<authVars, now, layoutVars, step, email, otp, success, attempts,
                   otpSentTime, timeLeft, timer, pageVars, lastAnswer, session, mountAt, otpHist,
                   usersVars>>
    /\ UNCHANGED mockVars

\* handleVerifyOtp, the answer of verify-otp
VerifyResponse(res) ==
    /\ inflight # << >> /\ inflight[1].kind = "verify-otp"
    /\ inflight' = Tail(inflight)
    /\ lastAnswer' = <<[to |-> "verify-otp", res |-> res]>>
    /\ IF res.kind # "http"
       THEN \* .catch
            /\ error' = (IF res.kind = "network" THEN NetworkErrorMessage
                         ELSE JsonErrorMessage)
            /\ dlgLoading' = FALSE
            /\ UNCHANGED <<authVars, layoutVars, step, email, otp, success, attempts,
                           otpSentTime, timeLeft, timer, listReqs, session, otpHist>>
       ELSE IF Rejected(res)
       THEN LET newAttempts == NewAttempts(inflight[1].attempts) IN
            /\ attempts' = newAttempts
            /\ error' = RejectionMessage(res.data, MAX_ATTEMPTS - newAttempts)
            /\ dlgLoading' = FALSE
            /\ otpHist' = [otpHist EXCEPT !.rejected = @ + 1]
            /\ UNCHANGED <<authVars, layoutVars, step, email, otp, success,
                           otpSentTime, timeLeft, timer, listReqs, session>>
       ELSE LET response == BuildAuthResponse(res.data, email)
                l == LoginEffect(response, now)
            IN  \* login(authResponse); onOpenChange(false)
                /\ user' = l.user /\ token' = l.token /\ storage' = l.storage
                /\ loginDialogOpen' = FALSE
                /\ view' = Render(mounted, authLoading, user', token')
                /\ IF view' # view
                   THEN \* the shell takes another return: a new dialog is mounted
                        FreshDialog
                   ELSE \* the same dialog, closed; isLoading is left as it is
                        ResetOnClose /\ UNCHANGED dlgLoading
                /\ listReqs' = AfterRender(listReqs, PageMounted(view, route),
                                           PageMounted(view', route), user', token')
                /\ session' = <<"in", response, now>>
                /\ otpHist' = [otpHist EXCEPT !.requestedFor = ""]
                /\ UNCHANGED <<authLoading, mounted>>
    /\ UNCHANGED <<now, route, mountAt, usersVars>>
    /\ UNCHANGED mockVars

\* handleResendOtp
ClickResend ==
    /\ DialogShown /\ step = "otp" /\ ~dlgLoading
    /\ otp' = "" /\ step' = "email" /\ error' = "" /\ success' = ""
    /\ attempts' = 0 /\ otpSentTime' = << >>
    /\ timer' = TimerAfter(step, otpSentTime, step', otpSentTime', timer, now)
    /\ otpHist' = [otpHist EXCEPT !.requestedFor = ""]
    /\ UNCHANGED <<authVars, now, layoutVars, email, dlgLoading, timeLeft, inflight,
                   pageVars, lastAnswer, session, mountAt, usersVars>>
    /\ UNCHANGED mockVars

\* the close button of the dialog: handleCloseDialog(false), then the effect
\* on [open]
CloseDialog ==
    /\ DialogShown
    /\ ~dlgLoading
    /\ loginDialogOpen' = FALSE
    /\ ResetOnClose
    /\ otpHist' = [otpHist EXCEPT !.requestedFor = ""]
    /\ UNCHANGED <<authVars, now, mounted, view, dlgLoading, inflight, pageVars,
                   lastAnswer, session, mountAt, usersVars>>
    /\ UNCHANGED mockVars


-----------------------------------------------------------------------------
(* The users page                                                          *)

\* the query fetches again: window focus, reconnect, a retry after a failed
\* request, an invalidation after a mutation
Refetch ==
    /\ PageMounted(view, route)
    /\ listReqs' = Fetched(listReqs, user, token)
    /\ UNCHANGED <<authVars, now, layoutVars, dialogVars, route, lastAnswer, session, mountAt, otpHist,
                   usersVars>>
    /\ UNCHANGED mockVars

\* a list request is answered: the result of fetchUsers is cached under the
\* key of the request, a failure leaves the cache as it is
ListResponse(r, ans) ==
    /\ r \in listReqs
    /\ listReqs' = listReqs \ {r}
    /\ IF ans.ok /\ r.key \in Societies
       THEN /\ usersCache' = [usersCache EXCEPT ![r.key] = <<FetchUsersResult(ans)>>]
            /\ invalidated' = [invalidated EXCEPT ![r.key] = FALSE]
       ELSE UNCHANGED <<usersCache, invalidated>>
    /\ UNCHANGED <<authVars, now, layoutVars, dialogVars, route, lastAnswer, session, mountAt, otpHist,
                   otherKeys, mutReqs, localVars>>
    /\ UNCHANGED mockVars

-----------------------------------------------------------------------------
(* Time                                                                    *)

HalfOtpMs == (OtpLifetimeSec * 1000) \div 2

\* the bound on the clock: each step size is taken a bounded number of times
\* within the next larger one
ClockRoom(d) ==
    LET t == now - T0 IN
    CASE d = 1             -> t % TICK_MS < MaxSlackMs
      [] d = TICK_MS       -> (t % HalfOtpMs) \div TICK_MS < MaxTicks
      [] d = HalfOtpMs     -> (t % EXPIRATION_MS) \div HalfOtpMs < MaxHalves
      [] d = EXPIRATION_MS -> t \div EXPIRATION_MS < MaxWindows

\* number of periods of the interval that have ended at time t
Periods(t) == (t - timer[1]) \div TICK_MS

\* d ms pass.  While the interval of the dialog runs, its callback runs at
\* the end of every period; of the callbacks that ran within the d ms only
\* the last one shows, and the clock does not step over the callback that
\* clears the interval.
AdvanceClock(d) ==
    /\ ClockRoom(d)
    /\ timer # << >> => Periods(now + d) <= OtpLifetimeSec
    /\ now' = now + d
    /\ IF timer # << >> /\ Periods(now + d) > Periods(now)
       THEN LET tickTime  == timer[1] + TICK_MS * Periods(now + d)
                elapsed   == (tickTime - otpSentTime[1]) \div 1000
                remaining == OtpLifetimeSec - elapsed
            IN /\ timeLeft' = remaining
               /\ IF remaining <= 0
                  THEN /\ error' = MsgExpired /\ otp' = "" /\ timer' = << >>
                       /\ otpHist' = [otpHist EXCEPT !.expiredShown = TRUE]
                  ELSE UNCHANGED <<error, otp, timer, otpHist>>
       ELSE UNCHANGED <<timeLeft, error, otp, timer, otpHist>>
    /\ UNCHANGED <<authVars, layoutVars, step, email, dlgLoading, success, attempts,
                   otpSentTime, inflight, pageVars, lastAnswer, session, mountAt, usersVars>>
    /\ UNCHANGED mockVars

-----------------------------------------------------------------------------
(* UsersPage: search, filter, the two forms and the row buttons            *)

\* the rows of the table: filteredUsers of the observed query's data
ShownRows == FilteredUsers(UsersOf(usersCache, user), searchTerm, userTypeFilter)

\* the rows the mock-store page shows for the same list, term and filter
MockShownRows == FilteredUsersMock(UsersOf(usersCache, user), searchTerm, userTypeFilter)

\* neither modal dialog of the page is open, so the page itself takes clicks
NoModal == ~createDialogOpen /\ editDialogUser = << >>

\* formState.isSubmitting of the mounted form of this kind
IsSubmitting(kind) ==
    \E i \in 1..Len(mutReqs) : mutReqs[i].kind = kind /\ mutReqs[i].current

\* the form of this kind unmounts while its requests go on
FormClosed(reqs, kind) ==
    [i \in 1..Len(reqs) |->
        IF reqs[i].kind = kind THEN [reqs[i] EXCEPT !.current = FALSE] ELSE reqs[i]]

\* the sequence without its i-th element
Without(reqs, i) == SubSeq(reqs, 1, i - 1) \o SubSeq(reqs, i + 1, Len(reqs))

\* onChange of the search field
SetSearchTerm(t) ==
    /\ PageMounted(view, route) /\ NoModal
    /\ searchTerm' = t /\ formEvent' = "none"
    /\ UNCHANGED <<authVars, now, layoutVars, dialogVars, pageVars, histVars, cacheVars,
                   userTypeFilter, createDialogOpen, editDialogUser, formValues>>
    /\ UNCHANGED mockVars

\* onValueChange of the type filter
SetUserTypeFilter(f) ==
    /\ PageMounted(view, route) /\ NoModal
    /\ userTypeFilter' = f /\ formEvent' = "none"
    /\ UNCHANGED <<authVars, now, layoutVars, dialogVars, pageVars, histVars, cacheVars,
                   searchTerm, createDialogOpen, editDialogUser, formValues>>
    /\ UNCHANGED mockVars

\* the Create User button opens the create dialog, whose form starts from
\* its initialValues
OpenCreateDialog ==
    /\ PageMounted(view, route) /\ NoModal
    /\ createDialogOpen' = TRUE
    /\ formValues' = <<CreateInitialValues(user)>> /\ formEvent' = "none"
    /\ UNCHANGED <<authVars, now, layoutVars, dialogVars, pageVars, histVars, cacheVars,
                   searchTerm, userTypeFilter, editDialogUser>>
    /\ UNCHANGED mockVars

\* the ways a dialog is closed by hand: the form's Cancel button (onCancel),
\* the dialog's own close (onOpenChange)
CloseInputs == {"cancel", "dismiss"}

\* Cancel, or the dialog's own close: setCreateDialogOpen(false)
CloseCreateDialog(how) ==
    /\ PageMounted(view, route) /\ createDialogOpen
    /\ createDialogOpen' = FALSE /\ formValues' = << >> /\ formEvent' = how
    /\ mutReqs' = FormClosed(mutReqs, "create")
    /\ UNCHANGED <<authVars, now, layoutVars, dialogVars, pageVars, histVars,
                   otherKeys, usersCache, invalidated,
                   searchTerm, userTypeFilter, editDialogUser>>
    /\ UNCHANGED mockVars

\* typing into the fields of the create form (Society ID is disabled)
TypeInCreateForm(typed) ==
    /\ PageMounted(view, route) /\ createDialogOpen
    /\ formValues' = <<Typed(formValues[1], typed)>> /\ formEvent' = "none"
    /\ UNCHANGED <<authVars, now, layoutVars, dialogVars, pageVars, histVars, cacheVars,
                   searchTerm, userTypeFilter, createDialogOpen, editDialogUser>>
    /\ UNCHANGED mockVars

\* the create form is submitted: handleSubmit validates, then
\* createMutation.mutateAsync(values) sends the request
SubmitCreate ==
    /\ PageMounted(view, route) /\ createDialogOpen
    /\ ~IsSubmitting("create")
    /\ Len(mutReqs) < MaxInFlight
    /\ mutReqs' = IF FormValid(formValues[1])
                  THEN Append(mutReqs, CreateRequest(formValues[1]))
                  ELSE mutReqs
    /\ formEvent' = "none"
    /\ UNCHANGED <<authVars, now, layoutVars, dialogVars, pageVars, histVars,
                   otherKeys, usersCache, invalidated,
                   searchTerm, userTypeFilter, createDialogOpen, editDialogUser,
                   formValues>>
    /\ UNCHANGED mockVars

\* the Edit button of a row: setEditDialogUser(u)
ClickEdit(i) ==
    /\ PageMounted(view, route) /\ NoModal
    /\ i \in 1..Len(ShownRows)
    /\ editDialogUser' = <<ShownRows[i]>>
    /\ formValues' = <<EditInitialValues(ShownRows[i])>> /\ formEvent' = "none"
    /\ UNCHANGED <<authVars, now, layoutVars, dialogVars, pageVars, histVars, cacheVars,
                   searchTerm, userTypeFilter, createDialogOpen>>
    /\ UNCHANGED mockVars

\* Cancel, or the dialog's own close: setEditDialogUser(null)
CloseEditDialog(how) ==
    /\ PageMounted(view, route) /\ editDialogUser # << >>
    /\ editDialogUser' = << >> /\ formValues' = << >> /\ formEvent' = how
    /\ mutReqs' = FormClosed(mutReqs, "update")
    /\ UNCHANGED <<authVars, now, layoutVars, dialogVars, pageVars, histVars,
                   otherKeys, usersCache, invalidated,
                   searchTerm, userTypeFilter, createDialogOpen>>
    /\ UNCHANGED mockVars

\* a change in the edit form (Society ID is disabled)
ChangeEditForm(change) ==
    /\ PageMounted(view, route) /\ editDialogUser # << >>
    /\ formValues' = <<Switched(formValues[1], change)>> /\ formEvent' = "none"
    /\ UNCHANGED <<authVars, now, layoutVars, dialogVars, pageVars, histVars, cacheVars,
                   searchTerm, userTypeFilter, createDialogOpen, editDialogUser>>
    /\ UNCHANGED mockVars

\* the edit form is submitted: updateMutation.mutateAsync({id, values})
SubmitEdit ==
    /\ PageMounted(view, route) /\ editDialogUser # << >>
    /\ ~IsSubmitting("update")
    /\ Len(mutReqs) < MaxInFlight
    /\ mutReqs' = IF FormValid(formValues[1])
                  THEN Append(mutReqs, UpdateRequest(editDialogUser[1].user_id,
                                                     formValues[1]))
                  ELSE mutReqs
    /\ formEvent' = "none"
    /\ UNCHANGED <<authVars, now, layoutVars, dialogVars, pageVars, histVars,
                   otherKeys, usersCache, invalidated,
                   searchTerm, userTypeFilter, createDialogOpen, editDialogUser,
                   formValues>>
    /\ UNCHANGED mockVars

\* the Delete button of a row: deleteMutation.mutate(u.user_id)
ClickDelete(i) ==
    /\ PageMounted(view, route) /\ NoModal
    /\ i \in 1..Len(ShownRows)
    /\ ~DeleteDisabled(ShownRows[i])
    /\ Len(mutReqs) < MaxInFlight
    /\ mutReqs' = Append(mutReqs, StatusRequest(ShownRows[i].user_id, FALSE))
    /\ formEvent' = "none"
    /\ UNCHANGED <<authVars, now, layoutVars, dialogVars, pageVars, histVars,
                   otherKeys, usersCache, invalidated,
                   searchTerm, userTypeFilter, createDialogOpen, editDialogUser,
                   formValues>>
    /\ UNCHANGED mockVars

\* a create, update or status request is answered. When the mutation function
\* resolves, onSuccess invalidates every ["users", ...] query, which refetches
\* the one that is observed, and closes the dialog of the page that sent it;
\* when it rejects, nothing but the form's isSubmitting changes
MutationResponse(i, ans) ==
    /\ i \in 1..Len(mutReqs)
    /\ LET req == mutReqs[i]
           closes == Resolves(req, ans) /\ req.page
       IN
       /\ mutReqs' = IF closes /\ req.kind \in {"create", "update"}
                     THEN FormClosed(Without(mutReqs, i), req.kind)
                     ELSE Without(mutReqs, i)
       /\ createDialogOpen' = IF closes /\ req.kind = "create" THEN FALSE
                              ELSE createDialogOpen
       /\ editDialogUser' = IF closes /\ req.kind = "update" THEN << >>
                            ELSE editDialogUser
       /\ formValues' = IF \/ closes /\ req.kind = "create" /\ createDialogOpen
                           \/ closes /\ req.kind = "update" /\ editDialogUser # << >>
                        THEN << >> ELSE formValues
       /\ formEvent' = IF req.kind = "status" \/ ~req.page THEN formEvent
                       ELSE IF Resolves(req, ans) THEN "success" ELSE "failure"
       /\ IF Resolves(req, ans)
          THEN /\ invalidated' = [k \in Societies |-> TRUE]
               /\ listReqs' = IF PageMounted(view, route)
                              THEN Fetched(listReqs, user, token) ELSE listReqs
          ELSE UNCHANGED <<invalidated, listReqs>>
    /\ UNCHANGED <<authVars, now, layoutVars, dialogVars, route, histVars,
                   otherKeys, usersCache, searchTerm, userTypeFilter>>
    /\ UNCHANGED mockVars

-----------------------------------------------------------------------------
(* The system                                                              *)

\* one step of the system, with the inputs drawn from the given sets
Step(emails, otps, otpAnswers, verifyAnswers, listAnswers, deltas) ==
    \/ MountEffects
    \/ Reload
    \/ Logout
    \/ OpenDialog
    \/ \E r \in {"home", "users"} : Navigate(r)
    \/ \E e \in emails : SetEmail(e)
    \/ ClickSendOtp
    \/ \E res \in otpAnswers : RequestOtpResponse(res)
    \/ \E raw \in otps : SetOtp(raw)
    \/ ClickVerify
    \/ \E res \in verifyAnswers : VerifyResponse(res)
    \/ ClickResend
    \/ CloseDialog
    \/ Refetch
    \/ \E r \in listReqs, ans \in listAnswers : ListResponse(r, ans)
    \/ \E d \in deltas : AdvanceClock(d)

\* the answers of verify-otp that differ in how the dialog goes on
DialogVerifyResponses ==
    { res \in VerifyResponses :
        \/ res.kind # "http"
        \/ ~res.ok
        \/ res.data.success # << >>
        \/ res.data = EmptyBody
        \/ res.data.user # << >> /\ Truthy(res.data.token) }

\* the login dialog in full, over the lifetime of a few OTPs
Next == Step(EmailInputs, OtpInputs, RequestOtpResponses, DialogVerifyResponses,
             {ans \in ListAnswers : ~ans.ok}, {TICK_MS, HalfOtpMs})

Spec == Init /\ [][Next]_vars


\* the session over several expiration windows and page loads: every shape
\* of an accepted verify-otp answer, one e-mail address, one OTP
SessionVerifyResponses ==
    { res \in VerifyResponses : res.kind = "http" /\ (~Rejected(res) \/ ~res.ok) }

SessionNext ==
    Step({"admin@lancor.in"}, {<<"1", "2", "3", "4", "5", "6">>},
         { res \in RequestOtpResponses : res.kind = "http" /\ res.message = Undefined },
         SessionVerifyResponses, {ans \in ListAnswers : ~ans.ok}, {1, EXPIRATION_MS})

SessionSpec == Init /\ [][SessionNext]_vars

\* what localStorage may hold under the keys getHeaders reads: nothing, or a
\* token left there by other code
OtherKeysInputs == {NoOtherKeys, [token |-> Null, auth_token |-> "tokOld"]}

UsersInit == \E keys \in OtherKeysInputs : InitWith(keys)

\* the verify-otp answers of the users screen: an admin and an owner of one
\* society, each with a token
UsersVerifyResponses ==
    { res \in VerifyResponses :
        /\ res.kind = "http" /\ res.ok /\ ~Rejected(res)
        /\ res.data.user # << >> \/ res.data.userDto # << >>
        /\ Truthy(BuildAuthResponse(res.data, "admin@lancor.in").token) }

\* the list answers of the users screen: a failure, an array of an active
\* and an inactive user
UsersListAnswers ==
    { ans \in ListAnswers :
        \/ ~ans.ok
        \/ ans.shape = "array" /\ Len(FetchUsersResult(ans)) = 2 }

\* the users screen: one login, the forms and the row buttons (the search and
\* the type filter are exercised in FilterSpec)
UsersNext ==
    \/ MountEffects
    \/ Reload
    \/ Logout
    \/ OpenDialog
    \/ \E r \in {"home", "users"} : Navigate(r)
    \/ SetEmail("admin@lancor.in")
    \/ ClickSendOtp
    \/ \E res \in { r \in RequestOtpResponses : r.kind = "http" /\ r.ok } :
          RequestOtpResponse(res)
    \/ SetOtp(<<"1", "2", "3", "4", "5", "6">>)
    \/ ClickVerify
    \/ \E res \in UsersVerifyResponses : VerifyResponse(res)
    \/ Refetch
    \/ \E r \in listReqs, ans \in UsersListAnswers : ListResponse(r, ans)
    \/ OpenCreateDialog
    \/ \E how \in CloseInputs : CloseCreateDialog(how)
    \/ \E typed \in CreateInputs : TypeInCreateForm(typed)
    \/ SubmitCreate
    \/ \E i \in 1..Len(ShownRows) : ClickEdit(i)
    \/ \E how \in CloseInputs : CloseEditDialog(how)
    \/ \E change \in EditInputs : ChangeEditForm(change)
    \/ SubmitEdit
    \/ \E i \in 1..Len(ShownRows) : ClickDelete(i)
    \/ \E i \in 1..Len(mutReqs), ans \in MutationAnswers : MutationResponse(i, ans)

UsersSpec == UsersInit /\ [][UsersNext]_vars

\* search and filter: an administrator's page, every list answer, every search
\* term and every choice of the type filter
FilterNext ==
    \/ MountEffects
    \/ Reload
    \/ OpenDialog
    \/ \E r \in {"home", "users"} : Navigate(r)
    \/ SetEmail("admin@lancor.in")
    \/ ClickSendOtp
    \/ \E res \in { r \in RequestOtpResponses : r.kind = "http" /\ r.ok } :
          RequestOtpResponse(res)
    \/ SetOtp(<<"1", "2", "3", "4", "5", "6">>)
    \/ ClickVerify
    \/ \E res \in { r \in UsersVerifyResponses : r.data.user # << >> } : VerifyResponse(res)
    \/ Refetch
    \/ \E r \in listReqs, ans \in ListAnswers : ListResponse(r, ans)
    \/ \E t \in SearchInputs : SetSearchTerm(t)
    \/ \E f \in FilterInputs : SetUserTypeFilter(f)

FilterSpec == Init /\ [][FilterNext]_vars

\* a caller invokes a function of the mock API layer: its mockDelay() starts
MockCall(call) ==
    /\ Len(mockLog) + Len(mockCalls) < MaxMockCalls
    /\ mockCalls' = Append(mockCalls, [op |-> call.op, data |-> call.data,
                                       seen |-> mockUsers])
    /\ UNCHANGED <<mockUsers, mockResult, mockOutcome, mockLog>>
    /\ UNCHANGED <<authVars, now, layoutVars, dialogVars, pageVars, usersVars, histVars>>

\* the delay of the oldest call ends (every delay is 400 ms, so the timers
\* fire in the order the calls were made): the rest of the function runs
MockDelayEnds ==
    /\ mockCalls # << >>
    /\ LET call == Head(mockCalls)
           id == FreshIds[1 + Cardinality({k \in 1..Len(mockLog) :
                                              mockLog[k].op = "createUser"})]
           done == MockApply(call, StoreRead(call, mockUsers), id)
       IN
       /\ mockUsers' = done.users
       /\ mockResult' = IF call.op = "fetchUsers" THEN <<done.result>> ELSE mockResult
       /\ mockOutcome' = <<[op |-> call.op, data |-> call.data, ok |-> done.ok,
                            result |-> done.result]>>
       /\ mockLog' = Append(mockLog, [op |-> call.op, data |-> call.data, id |-> id,
                                      seen |-> call.seen])
    /\ mockCalls' = Tail(mockCalls)
    /\ UNCHANGED <<authVars, now, layoutVars, dialogVars, pageVars, usersVars, histVars>>

\* the caller of fetchUsers changes a user of the array it was given
ModifyResult ==
    /\ mockResult # << >> /\ mockResult[1].value # << >>
    /\ mockResult[1].value[1].full_name # <<"x">>
    /\ LET changed == [mockResult[1].value EXCEPT ![1].full_name = <<"x">>] IN
       /\ mockResult' = <<[mockResult[1] EXCEPT !.value = changed]>>
       /\ mockUsers' = IF mockResult[1].shared THEN changed ELSE mockUsers
    /\ UNCHANGED <<mockCalls, mockOutcome, mockLog>>
    /\ UNCHANGED <<authVars, now, layoutVars, dialogVars, pageVars, usersVars, histVars>>

\* the mock API layer under any sequence of calls, overlapping or not
MockNext ==
    \/ \E call \in MockCallInputs : MockCall(call)
    \/ MockDelayEnds
    \/ ModifyResult

MockSpec == Init /\ [][MockNext]_vars

-----------------------------------------------------------------------------
(* Properties of the session and of the shell (SessionSpec)                *)

LoggedIn == session # << >> /\ session[1] = "in"

\* C1: the shell shows the sidebar, the header and the routed children only
\* when auth loading has finished and isAuthenticated and isAdmin are both
\* true; in every other state it shows the Loading screen or the Restricted
\* Access screen.
C1_ShellGatesContent ==
    /\ view \in {"loading", "restricted", "dashboard"}
    /\ view = "dashboard" => ~authLoading /\ isAuthenticated /\ isAdmin
    /\ ~(~authLoading /\ isAuthenticated /\ isAdmin) => view \in {"loading", "restricted"}
    /\ PageMounted(view, route) => view = "dashboard"

\* an owner has logged in and is held back by the Restricted Access screen
C1_Witness ==
    /\ isAuthenticated /\ ~isAdmin /\ ~authLoading
    /\ view = "restricted"

\* C2 as stated: whenever isAuthenticated is true, the login that created
\* the session happened at most EXPIRATION_MS before the current time.
C2_SessionWithinWindow ==
    isAuthenticated => LoggedIn /\ now - session[3] <= EXPIRATION_MS

\* C2, amended: whenever isAuthenticated is true, the login that created the
\* session happened at most EXPIRATION_MS before the last mount of
\* AuthProvider (the last page load).
C2_SessionWithinWindowAtMount ==
    isAuthenticated => LoggedIn /\ mountAt - session[3] <= EXPIRATION_MS

\* a session restored by a page load within the window, still authenticated
\* after the window has passed
C2_Witness ==
    /\ isAuthenticated /\ LoggedIn
    /\ mountAt > session[3]
    /\ now - session[3] > EXPIRATION_MS

\* C3: the mount effect on a parseable stored record: older than
\* EXPIRATION_MS, the record is removed and user and token stay null;
\* otherwise (an age of exactly EXPIRATION_MS included) user and token are
\* set to the stored values and the record is kept.
C3_MountRestoresOrExpires ==
    [][ (authLoading /\ ~authLoading' /\ JSONParse(storage) # << >>) =>
            LET record == JSONParse(storage)[1] IN
            IF now - record.timestamp > EXPIRATION_MS
            THEN storage' = Absent /\ user' = << >> /\ token' = Null
            ELSE /\ user' = <<record.user>> /\ token' = record.token
                 /\ storage' = storage ]_vars

\* the mount effect has just restored a record of exactly EXPIRATION_MS
C3_Witness ==
    /\ ~authLoading /\ mountAt = now
    /\ JSONParse(storage) # << >>
    /\ now - JSONParse(storage)[1].timestamp = EXPIRATION_MS
    /\ user = <<JSONParse(storage)[1].user>>

\* C4: after login(response), and after any later mount within the window
\* with no logout in between, user and token are those of the response and
\* lancorc_auth holds exactly that user, that token and the login time.
C4_LoginPersists ==
    (LoggedIn /\ mounted /\ mountAt - session[3] <= EXPIRATION_MS) =>
        /\ user = <<session[2].user>>
        /\ token = session[2].token
        /\ JSONParse(storage) = <<[user |-> session[2].user, token |-> session[2].token,
                                   timestamp |-> session[3]]>>

\* the session of a login built from the answer's own fields, restored by a
\* page load at the very end of the window
C4_Witness ==
    /\ LoggedIn /\ mounted
    /\ mountAt - session[3] = EXPIRATION_MS
    /\ user = <<session[2].user>> /\ token = session[2].token
    /\ token = "tokB"

\* C5: after logout, and through any later mount until login is called
\* again, user and token are null, isAuthenticated and isAdmin are false and
\* lancorc_auth is absent.
C5_LogoutEndsSession ==
    (session # << >> /\ session[1] = "out") =>
        /\ user = << >> /\ token = Null
        /\ ~isAuthenticated /\ ~isAdmin
        /\ storage = Absent

\* the page has been loaded again after a logout
C5_Witness ==
    /\ session = <<"out", TRUE>>
    /\ mounted /\ ~authLoading /\ view = "restricted"

\* C6: isAuthenticated is true exactly when user is non-null and token is a
\* non-empty string; isAdmin is true exactly when user is non-null and its
\* user_type is ADMIN.
C6_FlagsDerived ==
    /\ isAuthenticated <=> (user # << >> /\ token # Null /\ token # Undefined /\ token # "")
    /\ isAdmin <=> (user # << >> /\ user[1].user_type = "ADMIN")

\* an administrator is held with an empty token
C6_Witness ==
    /\ user # << >> /\ user[1].user_type = "ADMIN"
    /\ token = ""
    /\ ~isAuthenticated /\ isAdmin

\* C10: every list request UsersPage issues carries the society_id of the
\* user AuthContext holds at that time as its societyId, and that
\* societyId is not empty.
C10_ListScopedToSociety ==
    [][ \A r \in listReqs' \ listReqs :
            /\ user' # << >>
            /\ user'[1].society_id \notin {"", Null, Undefined}
            /\ r.url = "http://localhost:8080/api/admin/users?societyId="
                        \o user'[1].society_id ]_vars

\* the list of the second society is being fetched for its administrator
C10_Witness ==
    /\ user # << >> /\ user[1].society_id = SocietyB
    /\ \E r \in listReqs :
           r.url = "http://localhost:8080/api/admin/users?societyId=" \o SocietyB

-----------------------------------------------------------------------------
(* Properties of the login dialog (Spec)                                   *)

VerifyInFlight == inflight # << >> /\ inflight[1].kind = "verify-otp"

\* C7: the dialog opens in the email step; it moves from the email step to
\* the otp step only on an OK answer to a request-otp call for the entered
\* e-mail; a verify-otp request is sent only in the otp step, after such an
\* answer since the last reset, and for that e-mail.
C7_TwoStepOrder ==
    [][ /\ (~loginDialogOpen /\ loginDialogOpen') => step' = "email"
        /\ (step = "email" /\ step' = "otp") =>
              /\ inflight # << >> /\ inflight[1].kind = "request-otp"
              /\ inflight[1].email = email
              /\ lastAnswer' # << >> /\ lastAnswer'[1].to = "request-otp"
              /\ lastAnswer'[1].res.kind = "http" /\ lastAnswer'[1].res.ok
        /\ (VerifyInFlight' /\ inflight' # inflight) =>
              /\ step = "otp"
              /\ otpHist.requestedFor # "" /\ otpHist.requestedFor = email
              /\ inflight'[1].email = email ]_vars

\* a verify-otp request is on its way for the second address
C7_Witness ==
    /\ VerifyInFlight /\ step = "otp"
    /\ inflight[1].email = "meena@lancor.in"
    /\ otpHist.requestedFor = "meena@lancor.in"

C9_NoVerifyAfterExpiry ==
    VerifyInFlight => ~inflight[1].afterExpiry

\* this step is the answer to the oldest pending fetch of the dialog
DialogAnswered == inflight # << >> /\ inflight' = Tail(inflight) /\ mounted'

\* C14: at most one request-otp or verify-otp call is in flight; while one
\* is in flight the user cannot close the dialog, no further call is sent,
\* and the step changes only when the call is answered.
C14_OneDialogRequest ==
    [][ /\ Len(inflight') <= 1
        /\ inflight' # << >> => dlgLoading'
        /\ inflight # << >> =>
              /\ inflight' \in {inflight, << >>}
              /\ step' # step => inflight' = << >>
              /\ loginDialogOpen' # loginDialogOpen => inflight' = << >> ]_vars

\* a verify-otp call is in flight in the open dialog and its countdown runs
C14_Witness ==
    /\ DialogShown /\ dlgLoading
    /\ inflight # << >> /\ inflight[1].kind = "verify-otp"
    /\ timer # << >> /\ timeLeft < OtpLifetimeSec

\* C18: after a failed request-otp call (non-OK answer, network error), a
\* verify-otp call rejected with attempts remaining, or a verify-otp call
\* that failed with a network error, the dialog shows an error, is in the
\* same step with nothing in flight and isLoading false, and the same action
\* can be submitted again: the e-mail is as entered and Send OTP is enabled;
\* attempts remain and Verify is enabled for the OTP as entered (the field
\* is empty if the countdown ran out while the call was in flight).
C18_FailureRecoverable ==
    [][ DialogAnswered =>
          LET res  == lastAnswer'[1].res
              sent == inflight[1]
              flagged == \/ ~res.ok
                         \/ res.data.success = <<FALSE>>
                         \/ res.data.valid = <<FALSE>>
                         \/ res.data.error \notin {Undefined, Null, ""}
          IN
          /\ (sent.kind = "request-otp" /\ ~(res.kind = "http" /\ res.ok)) =>
                /\ error' # "" /\ step' = "email" /\ step = "email"
                /\ inflight' = << >> /\ ~dlgLoading'
                /\ email' = sent.email /\ ~SendDisabled(dlgLoading')
          /\ (sent.kind = "verify-otp"
                /\ (res.kind # "http" \/ (flagged /\ sent.attempts + 1 < MAX_ATTEMPTS))) =>
                /\ error' # "" /\ step' = "otp" /\ step = "otp"
                /\ inflight' = << >> /\ ~dlgLoading'
                /\ attempts' < MAX_ATTEMPTS
                /\ otp' = otp
                /\ (otp' = sent.otp \/ (otp' = "" /\ otpHist'.expiredShown))
                /\ Len(otp') = 6 => ~VerifyDisabled(dlgLoading', otp', attempts') ]_vars

\* the second rejection of an OTP has been shown, Verify is enabled again
C18_Witness ==
    /\ DialogShown /\ step = "otp" /\ inflight = << >>
    /\ lastAnswer # << >> /\ lastAnswer[1].to = "verify-otp"
    /\ lastAnswer[1].res.kind = "http" /\ ~lastAnswer[1].res.ok
    /\ attempts = 2 /\ error # "" /\ ~dlgLoading
    /\ ~VerifyDisabled(dlgLoading, otp, attempts)

\* C19 as stated: whenever the dialog is opened it is in its initial state:
\* email step, empty e-mail and OTP, no error, attempts 0, nothing in flight
\* and isLoading false, so that Send OTP is enabled and it can be closed.
C19_OpensInInitialState ==
    [][ (~loginDialogOpen /\ loginDialogOpen') =>
            /\ step' = "email" /\ email' = "" /\ otp' = ""
            /\ error' = "" /\ attempts' = 0
            /\ inflight' = << >>
            /\ ~dlgLoading' ]_vars

-----------------------------------------------------------------------------
(* Claims about the users screen                                           *)

\* this step puts a list request on the wire
ListIssued == listReqs' \ listReqs # {}

\* this step puts a create, update or status request on the wire
MutationIssued == Len(mutReqs') > Len(mutReqs)

\* this step takes a create, update or status request off the wire
MutationAnswered == Len(mutReqs') < Len(mutReqs)

\* C11: user records are requested only for an authenticated administrator:
\* every step that issues a list request or a create, update or status
\* request is taken by a page rendered with isAuthenticated and isAdmin true
C11_RequestsOnlyForAdmin ==
    [][ListIssued \/ MutationIssued =>
            /\ IsAuthenticated(user', token') /\ IsAdmin(user')
            /\ PageMounted(view', route')]_vars

\* an administrator's page with a list request and an update request in flight
C11_Witness ==
    /\ isAuthenticated /\ isAdmin
    /\ listReqs # {}
    /\ \E i \in 1..Len(mutReqs) : mutReqs[i].kind = "update"

\* the two characters are the same letter in either case, or the same character
SameIgnoringCase(a, b) ==
    \/ a = b
    \/ \E n \in 1..Len(UpperCaseLetters) :
          {a, b} = {UpperCaseLetters[n], LowerCaseLetters[n]}

\* the text contains the part at some position, ignoring case
ContainsIgnoringCase(text, part) ==
    \E at \in 0..(Len(text) - Len(part)) :
        \A k \in 1..Len(part) : SameIgnoringCase(text[at + k], part[k])

\* the positions of the users the claim selects
Selected(users, term, filter) ==
    { i \in 1..Len(users) :
        /\ \/ term = << >>
           \/ ContainsIgnoringCase(users[i].full_name, term)
           \/ ContainsIgnoringCase(users[i].email, term)
        /\ filter = "ALL" \/ users[i].user_type = filter }

\* rows is exactly the users at the positions, in their original order
ExactlyAt(rows, users, positions) ==
    /\ Len(rows) = Cardinality(positions)
    /\ \A k \in 1..Len(rows) :
          \E i \in positions :
              /\ Cardinality({j \in positions : j < i}) = k - 1
              /\ rows[k] = users[i]

\* what every filter result is held to, whatever the term
FilterSound(rows, users) ==
    /\ searchTerm = << >> /\ userTypeFilter = "ALL" => rows = users
    /\ \A k \in 1..Len(rows) : \E i \in 1..Len(users) : rows[k] = users[i]

\* C16 as stated: for every list, search term and type filter, filteredUsers
\* is exactly the users, in their original order, whose full name or e-mail
\* contains the search term as typed, ignoring case (or the term is empty),
\* and whose user_type equals the selected type (or the filter is ALL); this
\* for the routed page and for the mock-store page
C16_FilterExactAsTyped ==
    LET users == UsersOf(usersCache, user) IN
    /\ ExactlyAt(ShownRows, users, Selected(users, searchTerm, userTypeFilter))
    /\ ExactlyAt(MockShownRows, users, Selected(users, searchTerm, userTypeFilter))
    /\ FilterSound(ShownRows, users) /\ FilterSound(MockShownRows, users)

\* C16: filteredUsers is exactly the users, in their original order, whose
\* full name or e-mail contains the search term ignoring case (or the term is
\* empty) and whose user_type equals the selected type (or the filter is
\* ALL), where the term is the text as typed on the routed page and the text
\* without its leading and trailing white space on the mock-store page; with
\* an empty term and ALL it is the whole list, and it never contains a user
\* absent from the fetched list
C16_FilterExact ==
    LET users == UsersOf(usersCache, user) IN
    /\ ExactlyAt(ShownRows, users, Selected(users, searchTerm, userTypeFilter))
    /\ ExactlyAt(MockShownRows, users,
                 Selected(users, TrimText(searchTerm), userTypeFilter))
    /\ FilterSound(ShownRows, users) /\ FilterSound(MockShownRows, users)

\* a list of three users searched for a term in the other case that only one
\* of them contains
C16_Witness ==
    /\ PageMounted(view, route)
    /\ Len(UsersOf(usersCache, user)) = 3
    /\ searchTerm = <<"o", "A">> /\ userTypeFilter = "ALL"
    /\ ShownRows = <<RowTenant>> /\ MockShownRows = <<RowTenant>>

\* the request carries the token of the login session, as persisted
CarriesSessionToken(r) ==
    /\ JSONParse(storage') # << >>
    /\ JSONParse(storage')[1].token = session'[2].token
    /\ r.headers.Authorization = "Bearer " \o session'[2].token

\* the create, update or status request this step has issued
Issued == mutReqs'[Len(mutReqs')]

\* C12: requests for user records are authenticated with the stored token:
\* every list, create, update and status request sent while a session
\* established through login is active carries Authorization: Bearer <token>,
\* the token of that session as persisted in local storage
C12_RequestsCarrySessionToken ==
    [][/\ ListIssued /\ LoggedIn' =>
            \A r \in listReqs' \ listReqs : CarriesSessionToken(r)
       /\ MutationIssued /\ LoggedIn' => CarriesSessionToken(Issued)]_vars

\* the answer is a success of the request: an OK status and, for a create
\* or an update, the JSON body the caller reads
Succeeded(req, ans) == ans.ok /\ (req.kind \in {"create", "update"} => ans.json)

\* C13: the cached list is invalidated on success and only on success: the
\* answer to a create, update or status request that succeeded invalidates
\* every users query, and the query the page observes is fetched again; the
\* answer to one that failed invalidates nothing and fetches nothing
C13_InvalidatedOnSuccessOnly ==
    [][MutationAnswered => \A i \in 1..Len(mutReqs), ans \in MutationAnswers :
          MutationResponse(i, ans) =>
              IF Succeeded(mutReqs[i], ans)
              THEN /\ \A k \in Societies : invalidated'[k]
                   /\ PageMounted(view, route) /\ QueryEnabled(user, token) =>
                          ListRequest(user) \in listReqs'
              ELSE invalidated' = invalidated /\ listReqs' = listReqs]_vars

\* a list that was fetched is invalid and being fetched again while the page
\* shows it
C13_Witness ==
    /\ PageMounted(view, route)
    /\ UsersOf(usersCache, user) # << >>
    /\ invalidated[SocietyOf(user)]
    /\ ListRequest(user) \in listReqs
    /\ mutReqs = << >>

\* C15: the users screen has one request at a time: at most one create,
\* update or status request of UsersPage is in flight at any moment
C15_OneUsersRequest == Len(mutReqs) <= 1

\* C17: Delete is a soft delete: every status request is a PATCH of
\* /status?active=false for a user whose row is shown as active when its
\* Delete button is clicked, and no request of UsersPage removes a user
\* record or sets active=true through the status URL
C17_DeleteDeactivates ==
    [][MutationIssued =>
          /\ Issued.method \in {"POST", "PUT", "PATCH"}
          /\ Issued.kind = "status" <=> Issued.method = "PATCH"
          /\ Issued.kind = "status" =>
                /\ Issued.url = USERS_API_BASE \o "/" \o Issued.target
                                    \o "/status?active=false"
                /\ Issued.body = << >>
                /\ \E i \in 1..Len(ShownRows) :
                      /\ ShownRows[i].user_id = Issued.target
                      /\ ShownRows[i].is_active]_vars

\* a status request in flight for a user whose row is shown as active next to
\* an inactive one
C17_Witness ==
    /\ PageMounted(view, route)
    /\ \E i \in 1..Len(mutReqs), k \in 1..Len(ShownRows) :
          /\ mutReqs[i].kind = "status"
          /\ ShownRows[k].user_id = mutReqs[i].target /\ ShownRows[k].is_active
    /\ \E k \in 1..Len(ShownRows) : ~ShownRows[k].is_active

-----------------------------------------------------------------------------
(* Claims about the session a login creates                                *)

\* this step is the answer to verify-otp on which the dialog calls login and
\* closes
LoginCalled == DialogAnswered /\ inflight[1].kind = "verify-otp" /\ ~loginDialogOpen'

\* the body names the user's type or role as ADMIN, in one of the fields or
\* in one of the user objects the client reads
NamesAdmin(data) ==
    \/ "ADMIN" \in {data.userType, data.user_type, data.role}
    \/ \E o \in {data.user, data.userDto, data.profile} :
          o # << >> /\ o[1].user_type = "ADMIN"
    \/ /\ data.data # << >> /\ data.data[1].user # << >>
       /\ data.data[1].user[1].user_type = "ADMIN"

\* C21: admin rights come only from the backend: a session created by the
\* login dialog is authenticated with isAdmin true only if the verify-otp
\* answer names the user's type or role as ADMIN
C21_AdminOnlyFromBackend ==
    [][LoginCalled /\ IsAuthenticated(user', token') /\ IsAdmin(user') =>
            NamesAdmin(lastAnswer'[1].res.data)]_vars

\* C22: an accepted verify-otp answer always yields an authenticated session:
\* right after the dialog has called login and closed, isAuthenticated is
\* true, whatever field the token came in, or none
C22_AcceptedIsAuthenticated ==
    [][LoginCalled => IsAuthenticated(user', token')]_vars

-----------------------------------------------------------------------------
(* Claims about the attempt counter and the countdown                      *)

C24_CountdownStartsFull ==
    [][/\ timeLeft' \in 0..OtpLifetimeSec
       /\ step = "email" /\ step' = "otp" => timeLeft' = OtpLifetimeSec
       /\ step = "otp" /\ step' = "otp" /\ otpSentTime' = otpSentTime =>
              timeLeft' <= timeLeft]_vars

-----------------------------------------------------------------------------
(* Claims about memory, storage and the end of loading                     *)

\* lancorc_auth holds a record that can be read
RecordStored == storage # Absent /\ JSONParse(storage) # << >>

\* C27: memory and storage agree: once the mount effect has finished,
\* lancorc_auth holds a record exactly when isAuthenticated is true, and then
\* the record's user and token are the user and token in memory
C27_MemoryMatchesStorage ==
    mounted /\ ~authLoading =>
        /\ RecordStored <=> isAuthenticated
        /\ RecordStored =>
              /\ user = <<JSONParse(storage)[1].user>>
              /\ token = JSONParse(storage)[1].token

\* lancorc_auth holds an administrator's record with a token, not older than
\* the expiration window
AdminSessionStored ==
    /\ RecordStored
    /\ now - JSONParse(storage)[1].timestamp <= EXPIRATION_MS
    /\ JSONParse(storage)[1].user.user_type = "ADMIN"
    /\ Truthy(JSONParse(storage)[1].token)

\* C28: session restore is atomic with the end of loading: within one page
\* load isLoading goes from true to false once, in the mount effect, and
\* never back; the Loading screen is shown exactly while it is true; and with
\* an unexpired administrator's session stored, the step that ends loading
\* ends in the dashboard with the session restored, never in Restricted
\* Access
C28_RestoreEndsLoading ==
    [][/\ ~authLoading /\ authLoading' => mounted /\ ~mounted'
       /\ authLoading /\ ~authLoading' => ~mounted /\ mounted'
       /\ view' = "loading" <=> authLoading'
       /\ authLoading /\ ~authLoading' /\ AdminSessionStored =>
              /\ IsAuthenticated(user', token') /\ IsAdmin(user')
              /\ view' = "dashboard"]_vars

\* a page load has restored an administrator's session at the very end of
\* the window and shows the dashboard
C28_Witness ==
    /\ mounted /\ ~authLoading /\ mountAt = now
    /\ AdminSessionStored
    /\ now - JSONParse(storage)[1].timestamp = EXPIRATION_MS
    /\ isAuthenticated /\ isAdmin /\ view = "dashboard"

-----------------------------------------------------------------------------
(* Claims about the create and edit forms                                  *)

\* C25: created users are locked to the admin's society: every create
\* request carries the society_id of the logged-in administrator, and every
\* update request carries the society_id of the row being edited and is
\* addressed to that row
C25_SocietyLocked ==
    [][MutationIssued =>
          /\ Issued.kind = "create" =>
                /\ IsAuthenticated(user, token) /\ IsAdmin(user)
                /\ Issued.body[1].society_id = SocietyOf(user)
          /\ Issued.kind = "update" =>
                /\ editDialogUser # << >>
                /\ Issued.target = editDialogUser[1].user_id
                /\ Issued.body[1].society_id = editDialogUser[1].society_id]_vars

\* a create request with typed values and an update request with a switched
\* Active flag are in flight, each with the society_id it had to carry
C25_Witness ==
    /\ PageMounted(view, route) /\ isAdmin
    /\ \E i, k \in 1..Len(mutReqs) :
          /\ mutReqs[i].kind = "create"
          /\ mutReqs[i].body[1].full_name = <<"R", "a", "j">>
          /\ mutReqs[i].body[1].society_id = SocietyOf(user)
          /\ mutReqs[k].kind = "update"
          /\ editDialogUser # << >>
          /\ mutReqs[k].body[1].is_active # editDialogUser[1].is_active
          /\ mutReqs[k].body[1].society_id = editDialogUser[1].society_id

\* this step is the answer to a request of the given kind, and the answer is
\* a success
SuccessAnswered(kind) ==
    \E i \in 1..Len(mutReqs), ans \in MutationAnswers :
        /\ mutReqs[i].kind = kind /\ Succeeded(mutReqs[i], ans)
        /\ MutationResponse(i, ans)

\* a failed create or update changes nothing on the screen: the answer to a
\* create or update request that failed leaves the dialogs, the entered
\* values, the search, the filter, the cached list and its requests as they
\* were
FailureChangesNothing ==
    MutationAnswered => \A i \in 1..Len(mutReqs), ans \in MutationAnswers :
        /\ mutReqs[i].kind \in {"create", "update"}
        /\ ~Succeeded(mutReqs[i], ans)
        /\ MutationResponse(i, ans)
        => UNCHANGED <<createDialogOpen, editDialogUser, formValues, searchTerm,
                       userTypeFilter, usersCache, invalidated, listReqs>>

\* this step closes the create dialog on a page that stays mounted
CreateDialogCloses ==
    createDialogOpen /\ ~createDialogOpen' /\ PageMounted(view', route')

\* this step closes the edit dialog on a page that stays mounted
EditDialogCloses ==
    editDialogUser # << >> /\ editDialogUser' = << >> /\ PageMounted(view', route')

\* C26 as stated: a failed create or update changes nothing on the screen's
\* state; the create dialog is closed only by a successful create or by
\* Cancel, the edit dialog only by a successful update or by Cancel or
\* dismissal
C26_ClosedBySuccessOrCancel ==
    [][/\ FailureChangesNothing
       /\ CreateDialogCloses => SuccessAnswered("create") \/ formEvent' = "cancel"
       /\ EditDialogCloses =>
             SuccessAnswered("update") \/ formEvent' \in {"cancel", "dismiss"}]_vars

\* C26, amended: a failed create or update changes nothing on the screen's
\* state; while the page stays mounted each dialog is closed only by a
\* successful request of its form or by Cancel or dismissal
C26_FailureChangesNothing ==
    [][/\ FailureChangesNothing
       /\ CreateDialogCloses =>
             SuccessAnswered("create") \/ formEvent' \in {"cancel", "dismiss"}
       /\ EditDialogCloses =>
             SuccessAnswered("update") \/ formEvent' \in {"cancel", "dismiss"}]_vars

\* the create dialog is open with the typed values after its request failed
C26_Witness ==
    /\ PageMounted(view, route) /\ createDialogOpen
    /\ formEvent = "failure" /\ mutReqs = << >>
    /\ formValues # << >> /\ formValues[1].full_name = <<"R", "a", "j">>

-----------------------------------------------------------------------------
(* Claims about the mock API layer                                         *)

\* the user with this identifier is in the array
Stored(users, id) == \E i \in 1..Len(users) : users[i].user_id = id

\* this step is the end of the delay of a call of the given function
CallEnds(op) == MockDelayEnds /\ Head(mockCalls).op = op

\* the array with the user of this identifier made inactive and nothing else
\* changed
Deactivated(users, id) ==
    [i \in 1..Len(users) |->
        IF users[i].user_id = id
        THEN [user_id |-> users[i].user_id, society_id |-> users[i].society_id,
              full_name |-> users[i].full_name, email |-> users[i].email,
              phone |-> users[i].phone, user_type |-> users[i].user_type,
              is_active |-> FALSE]
        ELSE users[i]]

\* C29: the mock store never removes a user: softDeleteUser(id) of a stored
\* user sets its is_active to false and changes nothing else, and a second
\* softDeleteUser(id) would change nothing more; no step makes the array
\* shorter; updateUser and softDeleteUser of an unknown id throw "User not
\* found" and leave the array as it was
C29_SoftDeleteKeepsUsers ==
    [][/\ Len(mockUsers') >= Len(mockUsers)
       /\ \A op \in {"updateUser", "softDeleteUser"} :
             CallEnds(op) /\ ~Stored(mockUsers, Head(mockCalls).data.user_id) =>
                 /\ mockUsers' = mockUsers
                 /\ ~mockOutcome'[1].ok /\ mockOutcome'[1].result = "User not found"
       /\ CallEnds("softDeleteUser")
             /\ Stored(mockUsers, Head(mockCalls).data.user_id) =>
                 LET id == Head(mockCalls).data.user_id IN
                 /\ mockUsers' = Deactivated(mockUsers, id)
                 /\ mockOutcome'[1].ok
                 /\ Deactivated(mockUsers', id) = mockUsers']_vars

\* a user was soft deleted twice and is stored inactive next to the other
\* users, and the last call, for an unknown id, ended with "User not found"
C29_Witness ==
    /\ Len(mockLog) >= 3
    /\ mockLog[1].op = "softDeleteUser" /\ mockLog[2].op = "softDeleteUser"
    /\ mockLog[1].data.user_id = "bbbbbbbb" /\ mockLog[2].data.user_id = "bbbbbbbb"
    /\ mockOutcome # << >> /\ ~mockOutcome[1].ok
    /\ mockOutcome[1].data.user_id = "zzzzzzzz"
    /\ Len(mockUsers) = Len(MockUsers0)
    /\ \E i \in 1..Len(mockUsers) :
          mockUsers[i].user_id = "bbbbbbbb" /\ ~mockUsers[i].is_active

\* the calls of a log applied one after the other to an array
RECURSIVE Replay(_, _)
Replay(users, log) ==
    IF log = << >> THEN users
    ELSE Replay(MockApply(Head(log), users, Head(log).id).users, Tail(log))

\* C30: overlapping calls on the mock store lose no update: the array is
\* always what the calls whose delays have ended give when applied one after
\* the other in the order their delays ended; and changing the array that
\* fetchUsers returned does not change the store
C30_NoLostUpdate ==
    [][/\ mockUsers' = Replay(MockUsers0, mockLog')
       /\ ModifyResult => mockUsers' = mockUsers]_vars

\* two calls that changed the array overlapped (the later one was made before
\* the earlier one's delay ended), both changes are in the array, and a
\* fetchUsers result was changed by its caller and differs from the store
C30_Witness ==
    /\ \E k \in 2..Len(mockLog) :
          /\ mockLog[k].op # "fetchUsers" /\ mockLog[k - 1].op # "fetchUsers"
          /\ mockLog[k].seen = mockLog[k - 1].seen
          /\ Replay(MockUsers0, SubSeq(mockLog, 1, k - 1)) # mockLog[k].seen
          /\ Replay(MockUsers0, SubSeq(mockLog, 1, k))
                 # Replay(MockUsers0, SubSeq(mockLog, 1, k - 1))
    /\ mockUsers = Replay(MockUsers0, mockLog)
    /\ mockResult # << >> /\ mockResult[1].value # mockUsers
    /\ mockResult[1].value # << >> /\ mockResult[1].value[1].full_name = <<"x">>

=============================================================================
